---- MODULE Spec2Model ----
(***************************************************************************)
(* A model of AlgoEngine (vnpy/trader/app/algoTrading/algoEngine.py): the  *)
(* three routing indices (algoDict, orderAlgoDict, symbolAlgoDict), the    *)
(* event handlers that route through them, and the setting store.          *)
(*                                                                         *)
(* The file is Python 3 code (open(..., encoding=...) at line 386 is not   *)
(* accepted by Python 2), so dict.keys() is a live view and a dict keeps   *)
(* insertion order.  A dict whose order can be observed is modelled as a   *)
(* sequence of <<key, value>> pairs in insertion order.                    *)
(***************************************************************************)
EXTENDS Integers, Sequences, FiniteSets, TLC

\* ------------------------------------------------------------------ bounds
MaxAlgo == 2
MaxOrder == 1
MaxVolume == 2

Algos == 1..MaxAlgo
OrderIDs == 1..MaxOrder

\* Symbols the handlers are called with, and those the main engine has a
\* contract for.
Symbols == {"X", "Y", "Z"}
KnownContracts == {"X", "Y"}

\* Keys of the template registration table, and the names callers pass.
\* Names and volumes of the settings callers pass.
SettingNames == {"T1", "T2"}
Volumes == 1..MaxVolume

ALGO_DICT == {"Twap"}
TemplateNames == {"Twap", "Nope"}

\* Ports startRpc is called with, and the dicts of variables or parameters an
\* instance passes to putVarEvent and putParamEvent.
Ports == {1, 2}
Payloads == {[pos |-> 0], [pos |-> 1]}

\* The two call contexts: the event thread and the remote-procedure thread.
Contexts == {"event", "rpc"}

VARIABLES
    algoDict,        \* self.algoDict: <<algoName, algo>> pairs, insertion order
    orderAlgoDict,   \* self.orderAlgoDict: vtOrderID -> algo
    symbolAlgoDict,  \* self.symbolAlgoDict: vtSymbol -> set of algo
    created,         \* number of instances the template factory has built
    ordersSent,      \* number of order ids the main engine has handed out
    call,            \* the latest call of an engine method and how it ended
    hookCalls,       \* per instance, calls of its hook made by the latest call
    upstream,        \* main-engine requests issued by the latest call
    subCount,        \* per symbol, mainEngine.subscribe calls so far
    placedBy,        \* per order id, the instance whose sendOrder returned it
    joined,          \* per symbol, the instances whose subscribe went through
    stopCalls,       \* per instance, calls of its stop hook so far
    use_mongodb,     \* self.use_mongodb
    settingDict,     \* self.settingDict: <<settingName, setting>> pairs
    file,            \* the setting file Algo_setting.json
    db,              \* the AlgoSetting collection: its documents, in order
    events,          \* setting events put by the latest call, in order
    writes,          \* backends the latest call wrote to, in order
    rpcServer,       \* self.rpcServer: None, or the server and its state
    serversMade,     \* number of AlgoRpcServer objects built so far
    historyDict,     \* self.historyDict: <<algoName, history>> pairs
    historyDb,       \* the AlgoHistory collection: its documents, in order
    published,       \* what the latest call published on the server, in order
    steps,           \* what the latest storing or publishing call did, in order
    pc,              \* per call context, the method it is in and where
    faulty           \* instances whose updateTick raised in the latest tick

registryVars == <<algoDict, orderAlgoDict, symbolAlgoDict, created, ordersSent,
                  hookCalls, upstream, subCount, placedBy, joined, stopCalls>>

settingVars == <<use_mongodb, settingDict, file, db, events, writes>>

serverVars == <<rpcServer, serversMade, historyDict, historyDb, published>>

publishVars == <<serverVars, steps>>

contextVars == <<pc, faulty>>

\* ------------------------------------------------------- dict operations
EmptyDict == <<>>

DictKeys(d) == {d[i][1] : i \in 1..Len(d)}

DictHas(d, k) == k \in DictKeys(d)

DictIndex(d, k) == CHOOSE i \in 1..Len(d) : d[i][1] = k

DictGet(d, k) == d[DictIndex(d, k)][2]

\* d[k] = v: an existing key keeps its position, a new key goes last.
DictSet(d, k, v) ==
    IF DictHas(d, k)
    THEN [d EXCEPT ![DictIndex(d, k)] = <<k, v>>]
    ELSE Append(d, <<k, v>>)

\* del d[k]
DictDel(d, k) ==
    LET i == DictIndex(d, k)
    IN  SubSeq(d, 1, i - 1) \o SubSeq(d, i + 1, Len(d))

DictValues(d) == [i \in 1..Len(d) |-> d[i][2]]

NoHooks == [a \in Algos |-> 0]

\* The record of a call: the method, the instance passed (0: none), the
\* string and the number passed ("" and 0: none), whether it raised, what it
\* returned (0: None), and the number of log events it put (writeLog,
\* writeError).
Call(op, algo, sym, num, raised, ret, logs) ==
    [op |-> op, algo |-> algo, sym |-> sym, num |-> num,
     raised |-> raised, ret |-> ret, logs |-> logs]

\* The number of times a occurs in the sequence s.
Count(s, a) == Cardinality({i \in 1..Len(s) : s[i] = a})

\* ------------------------------------------------------------ collaborators
\* mainEngine.getContract(vtSymbol): truthy when the contract is known.
getContract(vtSymbol) == vtSymbol \in KnownContracts

\* algoClass.new(engine, setting): the factory gives the instance a name no
\* earlier instance has; an instance is identified with its algoName.
new(count) == count + 1

\* mainEngine.sendOrder(req, gatewayName): returns the new order's id.
mainSendOrder(count) == count + 1

\* ------------------------------------------------------------------ addAlgo
\* A slip: the instance is filed under a fixed name.
addAlgoDictFixedKey(d, algo) == DictSet(d, 1, algo)

\* self.algoDict[algo.algoName] = algo
addAlgoDict(d, algo) == DictSet(d, algo, algo)

addAlgo(templateName) ==
    /\ IF templateName \in ALGO_DICT
       THEN /\ created < MaxAlgo
            /\ LET algo == new(created)
               IN  /\ algoDict' = addAlgoDict(algoDict, algo)
                   /\ call' = Call("addAlgo", 0, templateName, 0, FALSE, algo, 0)
            /\ created' = created + 1
       ELSE \* ALGO_DICT[templateName] raises KeyError
            /\ call' = Call("addAlgo", 0, templateName, 0, TRUE, 0, 0)
            /\ UNCHANGED <<algoDict, created>>
    /\ hookCalls' = NoHooks
    /\ upstream' = {}
    /\ UNCHANGED <<orderAlgoDict, symbolAlgoDict, ordersSent, subCount,
                   placedBy, joined, stopCalls, settingVars,
                   publishVars, contextVars>>

\* ------------------------------------------------------- stopAlgo, stopAll
\* A slip: the stop hook is called but the name stays in algoDict.
stopAlgoResultKeeps(d, algoName) ==
    IF DictHas(d, algoName)
    THEN [dict |-> d, stops |-> <<DictGet(d, algoName)>>]
    ELSE [dict |-> d, stops |-> <<>>]

\* What stopAlgo does to algoDict, and the instances whose stop hook it calls.
stopAlgoResult(d, algoName) ==
    IF DictHas(d, algoName)
    THEN [dict |-> DictDel(d, algoName), stops |-> <<DictGet(d, algoName)>>]
    ELSE [dict |-> d, stops |-> <<>>]

\* A slip: stopping an instance also drops the orders it owns.
stopAlgoPurges(algoName) ==
    LET r == stopAlgoResult(algoDict, algoName)
    IN  /\ algoDict' = r.dict
        /\ orderAlgoDict' =
               [o \in {x \in DOMAIN orderAlgoDict :
                          Count(r.stops, orderAlgoDict[x]) = 0} |->
                   orderAlgoDict[o]]
        /\ hookCalls' = [a \in Algos |-> Count(r.stops, a)]
        /\ stopCalls' = [a \in Algos |-> stopCalls[a] + Count(r.stops, a)]
        /\ call' = Call("stopAlgo", 0, "", algoName, FALSE, 0, 0)
        /\ upstream' = {}
        /\ UNCHANGED <<symbolAlgoDict, created, ordersSent,
                       subCount, placedBy, joined, settingVars,
                       publishVars, contextVars>>

stopAlgo(algoName) ==
    LET r == stopAlgoResult(algoDict, algoName)
    IN  /\ algoDict' = r.dict
        /\ hookCalls' = [a \in Algos |-> Count(r.stops, a)]
        /\ stopCalls' = [a \in Algos |-> stopCalls[a] + Count(r.stops, a)]
        /\ call' = Call("stopAlgo", 0, "", algoName, FALSE, 0, 0)
        /\ upstream' = {}
        /\ UNCHANGED <<orderAlgoDict, symbolAlgoDict, created, ordersSent,
                       subCount, placedBy, joined, settingVars,
                       publishVars, contextVars>>

\* for algoName in self.algoDict.keys(): self.stopAlgo(algoName)
\* keys() is a view of the dict: the iterator is at entry i and remembers the
\* size the dict had when the loop began (used); each step first compares that
\* with the dict's size and raises RuntimeError when they differ.
RECURSIVE stopAllLoop(_, _, _, _)
stopAllLoop(d, i, used, stops) ==
    IF Len(d) # used
    THEN [dict |-> d, stops |-> stops, raised |-> TRUE]
    ELSE IF i > Len(d)
    THEN [dict |-> d, stops |-> stops, raised |-> FALSE]
    ELSE LET r == stopAlgoResult(d, d[i][1])
         IN  stopAllLoop(r.dict, i + 1, used, stops \o r.stops)

stopAllResult(d) == stopAllLoop(d, 1, Len(d), <<>>)

stopAll ==
    LET r == stopAllResult(algoDict)
    IN  /\ algoDict' = r.dict
        /\ hookCalls' = [a \in Algos |-> Count(r.stops, a)]
        /\ stopCalls' = [a \in Algos |-> stopCalls[a] + Count(r.stops, a)]
        /\ call' = Call("stopAll", 0, "", Len(algoDict), r.raised, 0, 0)
        /\ upstream' = {}
        /\ UNCHANGED <<orderAlgoDict, symbolAlgoDict, created, ordersSent,
                       subCount, placedBy, joined, settingVars,
                       publishVars, contextVars>>

\* ---------------------------------------------------------------- subscribe
\* A slip: the upstream request is issued on every subscribe.
subscribeResultEveryTime(sad, algo, vtSymbol) ==
    IF ~getContract(vtSymbol)
    THEN [dict |-> sad, reqs |-> {}, found |-> FALSE]
    ELSE [dict |-> IF vtSymbol \in DOMAIN sad
                   THEN [sad EXCEPT ![vtSymbol] = @ \cup {algo}]
                   ELSE (vtSymbol :> {algo}) @@ sad,
          reqs |-> {[req |-> "subscribe", sym |-> vtSymbol]}, found |-> TRUE]

\* A slip: a later subscriber replaces the symbol's set.
subscribeResultReplaces(sad, algo, vtSymbol) ==
    IF ~getContract(vtSymbol)
    THEN [dict |-> sad, reqs |-> {}, found |-> FALSE]
    ELSE IF vtSymbol \in DOMAIN sad
    THEN [dict |-> [sad EXCEPT ![vtSymbol] = {algo}],
          reqs |-> {}, found |-> TRUE]
    ELSE [dict |-> (vtSymbol :> {algo}) @@ sad,
          reqs |-> {[req |-> "subscribe", sym |-> vtSymbol]}, found |-> TRUE]

\* A slip: the return after the failed contract lookup is missing, and the
\* set is filled before the request is built from the contract.
subscribeResultNoReturn(sad, algo, vtSymbol) ==
    IF vtSymbol \in DOMAIN sad
    THEN [dict |-> [sad EXCEPT ![vtSymbol] = @ \cup {algo}],
          reqs |-> {}, found |-> getContract(vtSymbol)]
    ELSE [dict |-> (vtSymbol :> {algo}) @@ sad,
          reqs |-> IF getContract(vtSymbol)
                   THEN {[req |-> "subscribe", sym |-> vtSymbol]}
                   ELSE {},
          found |-> getContract(vtSymbol)]

\* What subscribe does to symbolAlgoDict, the upstream requests it issues, and
\* whether the contract was found.
subscribeResult(sad, algo, vtSymbol) ==
    IF ~getContract(vtSymbol)
    THEN [dict |-> sad, reqs |-> {}, found |-> FALSE]
    ELSE IF vtSymbol \in DOMAIN sad
    THEN [dict |-> [sad EXCEPT ![vtSymbol] = @ \cup {algo}],
          reqs |-> {}, found |-> TRUE]
    ELSE [dict |-> (vtSymbol :> {algo}) @@ sad,
          reqs |-> {[req |-> "subscribe", sym |-> vtSymbol]}, found |-> TRUE]

subscribe(algo, vtSymbol) ==
    LET r == subscribeResult(symbolAlgoDict, algo, vtSymbol)
    IN  /\ algo \in 1..created
        /\ symbolAlgoDict' = r.dict
        /\ upstream' = r.reqs
        /\ subCount' = [s \in Symbols |->
               subCount[s] + Cardinality({q \in r.reqs : q.sym = s})]
        /\ joined' = IF r.found
                     THEN [joined EXCEPT ![vtSymbol] = @ \cup {algo}]
                     ELSE joined
        /\ call' = Call("subscribe", algo, vtSymbol, 0, FALSE, 0,
                       IF r.found THEN 0 ELSE 1)
        /\ hookCalls' = NoHooks
        /\ UNCHANGED <<algoDict, orderAlgoDict, created, ordersSent, placedBy,
                       stopCalls, settingVars,
                       publishVars, contextVars>>

\* ---------------------------------------------------------------- sendOrder
\* A slip: key and value are exchanged.
sendOrderDictSwapped(oad, vtOrderID, algo) == (algo :> vtOrderID) @@ oad

\* self.orderAlgoDict[vtOrderID] = algo
sendOrderDict(oad, vtOrderID, algo) == (vtOrderID :> algo) @@ oad

sendOrder(algo, vtSymbol) ==
    /\ algo \in 1..created
    /\ IF getContract(vtSymbol)
       THEN /\ ordersSent < MaxOrder
            /\ LET vtOrderID == mainSendOrder(ordersSent)
               IN  /\ orderAlgoDict' = sendOrderDict(orderAlgoDict, vtOrderID, algo)
                   /\ placedBy' = (vtOrderID :> algo) @@ placedBy
                   /\ call' = Call("sendOrder", algo, vtSymbol, 0, FALSE,
                                   vtOrderID, 0)
            /\ ordersSent' = ordersSent + 1
            /\ upstream' = {[req |-> "sendOrder", sym |-> vtSymbol]}
       ELSE \* contract is None: writeLog, then contract.symbol raises
            \* AttributeError
            /\ call' = Call("sendOrder", algo, vtSymbol, 0, TRUE, 0, 1)
            /\ upstream' = {}
            /\ UNCHANGED <<orderAlgoDict, placedBy, ordersSent>>
    /\ hookCalls' = NoHooks
    /\ UNCHANGED <<algoDict, symbolAlgoDict, created, subCount, joined,
                   stopCalls, settingVars,
                   publishVars, contextVars>>

\* ----------------------------------------------------------------- dispatch
\* The instances whose updateTick a tick for vtSymbol calls.
tickTargets(sad, vtSymbol) ==
    IF vtSymbol \in DOMAIN sad THEN sad[vtSymbol] ELSE {}

\* The instances whose updateOrder / updateTrade an event for vtOrderID calls.
orderTargets(oad, vtOrderID) ==
    IF vtOrderID \in DOMAIN oad THEN {oad[vtOrderID]} ELSE {}

\* A slip: the timer goes to every instance that was ever built.
timerTargetsAll(d) == [i \in 1..MaxAlgo |-> i]

\* The instances whose updateTimer a timer event calls, in order.
timerTargets(d) == DictValues(d)

\* What every event handler leaves alone, and the record of its call.
Dispatched(op, sym, num) ==
    /\ call' = Call(op, 0, sym, num, FALSE, 0, 0)
    /\ upstream' = {}
    /\ UNCHANGED <<algoDict, orderAlgoDict, symbolAlgoDict, created, ordersSent,
                   subCount, placedBy, joined, stopCalls, settingVars,
                   publishVars, contextVars>>

processTickEvent(vtSymbol) ==
    /\ hookCalls' = [a \in Algos |->
           IF a \in tickTargets(symbolAlgoDict, vtSymbol) THEN 1 ELSE 0]
    /\ Dispatched("processTickEvent", vtSymbol, 0)

processOrderEvent(vtOrderID) ==
    /\ hookCalls' = [a \in Algos |->
           IF a \in orderTargets(orderAlgoDict, vtOrderID) THEN 1 ELSE 0]
    /\ Dispatched("processOrderEvent", "", vtOrderID)

processTradeEvent(vtOrderID) ==
    /\ hookCalls' = [a \in Algos |->
           IF a \in orderTargets(orderAlgoDict, vtOrderID) THEN 1 ELSE 0]
    /\ Dispatched("processTradeEvent", "", vtOrderID)

processTimerEvent ==
    /\ hookCalls' = [a \in Algos |-> Count(timerTargets(algoDict), a)]
    /\ Dispatched("processTimerEvent", "", 0)

\* ------------------------------------------------------------ setting store
\* A setting is a record {settingName, templateName, volume}.
Setting(settingName, volume) ==
    [settingName |-> settingName, templateName |-> "Twap", volume |-> volume]

Settings == {Setting(n, v) : n \in SettingNames, v \in Volumes}

\* json.dumps of a str and of an int, and json.load of one value: a literal
\* that begins with a quote is a str, any other is the int it spells.
jsonStr(s) == "\"" \o s \o "\""

jsonInt(n) == ToString(n)

jsonLoadStr(text) == SubSeq(text, 2, Len(text) - 1)

jsonLoadInt(text) == CHOOSE n \in 0..(MaxVolume + 1) : ToString(n) = text

\* json.dumps(l, indent=4) of the list of settings: one object per setting,
\* each key with the literal of its value.
jsonDumps(l) ==
    [i \in 1..Len(l) |->
        [settingName  |-> jsonStr(l[i].settingName),
         templateName |-> jsonStr(l[i].templateName),
         volume       |-> jsonInt(l[i].volume)]]

\* json.load(f)
jsonLoad(text) ==
    [i \in 1..Len(text) |->
        [settingName  |-> jsonLoadStr(text[i].settingName),
         templateName |-> jsonLoadStr(text[i].templateName),
         volume       |-> jsonLoadInt(text[i].volume)]]

NoFile == [exists |-> FALSE, text |-> <<>>]

\* mainEngine.dbUpdate(db, collection, d, {'settingName': settingName}, True):
\* replaces the document with that settingName, or inserts d.
dbUpdate(docs, d, settingName) ==
    IF \E i \in 1..Len(docs) : docs[i].settingName = settingName
    THEN LET i == CHOOSE j \in 1..Len(docs) : docs[j].settingName = settingName
         IN  [docs EXCEPT ![i] = d]
    ELSE Append(docs, d)

\* mainEngine.dbQuery(db, collection, {}, 'templateName'): every document,
\* sorted on templateName (the same in every setting here).
dbQuery(docs) == docs

\* mainEngine.dbDelete(db, collection, {'settingName': settingName})
dbDelete(docs, settingName) ==
    IF \E i \in 1..Len(docs) : docs[i].settingName = settingName
    THEN LET i == CHOOSE j \in 1..Len(docs) : docs[j].settingName = settingName
         IN  SubSeq(docs, 1, i - 1) \o SubSeq(docs, i + 1, Len(docs))
    ELSE docs

\* putSettingEvent: algoSetting['settingName'] = settingName, and the event's
\* data is algoSetting.
putSettingEvent(settingName, algoSetting) ==
    ("settingName" :> settingName) @@ algoSetting

\* The empty dict {} that deleteAlgoSetting passes to putSettingEvent.
EmptyPayload == <<>>

\* saveAlgoSettingToFile: the file after it.
saveAlgoSettingToFileResult(sd) ==
    [exists |-> TRUE, text |-> jsonDumps(DictValues(sd))]

\* A slip: the loaded settings are keyed by templateName.
RECURSIVE loadLoopByTemplate(_, _, _, _)
loadLoopByTemplate(l, i, sd, evs) ==
    IF i > Len(l)
    THEN [dict |-> sd, events |-> evs]
    ELSE LET algoSetting == l[i]
             settingName == algoSetting.templateName
         IN  loadLoopByTemplate(l, i + 1, DictSet(sd, settingName, algoSetting),
                      Append(evs, putSettingEvent(settingName, algoSetting)))

\* for algoSetting in l: self.settingDict[settingName] = algoSetting;
\*                       self.putSettingEvent(settingName, algoSetting)
RECURSIVE loadLoop(_, _, _, _)
loadLoop(l, i, sd, evs) ==
    IF i > Len(l)
    THEN [dict |-> sd, events |-> evs]
    ELSE LET algoSetting == l[i]
             settingName == algoSetting.settingName
         IN  loadLoop(l, i + 1, DictSet(sd, settingName, algoSetting),
                      Append(evs, putSettingEvent(settingName, algoSetting)))

\* loadAlgoSettingFromFile: the in-memory map after it, the events it puts
\* and the number of log events.
loadAlgoSettingFromFileResult(f, sd) ==
    IF ~f.exists
    THEN [dict |-> sd, events |-> <<>>, logs |-> 1]
    ELSE LET r == loadLoop(jsonLoad(f.text), 1, sd, <<>>)
         IN  [dict |-> r.dict, events |-> r.events, logs |-> 1]

\* loadAlgoSetting
loadAlgoSettingResult(mongo, f, docs, sd) ==
    IF ~mongo
    THEN loadAlgoSettingFromFileResult(f, sd)
    ELSE LET r == loadLoop(dbQuery(docs), 1, sd, <<>>)
         IN  [dict |-> r.dict, events |-> r.events, logs |-> 0]

\* A slip: the setting event is put before the setting is written.
saveAlgoSettingResultPublishFirst(mongo, f, docs, sd, algoSetting) ==
    LET settingName == algoSetting.settingName
    IN  [dict   |-> DictSet(sd, settingName, algoSetting),
         file   |-> f,
         db     |-> dbUpdate(docs, algoSetting, settingName),
         events |-> <<putSettingEvent(settingName, algoSetting)>>,
         writes |-> <<"db">>,
         steps  |-> <<"mutate", "put", "persist">>]

\* saveAlgoSetting: the map, the file and the collection after it, the events
\* it puts, the backends it writes, and its steps in the order of the code:
\* "mutate" the map, "persist" to the backend, "put" the event.
saveAlgoSettingResult(mongo, f, docs, sd, algoSetting) ==
    LET settingName == algoSetting.settingName
    IN  [dict   |-> DictSet(sd, settingName, algoSetting),
         file   |-> f,
         db     |-> dbUpdate(docs, algoSetting, settingName),
         events |-> <<putSettingEvent(settingName, algoSetting)>>,
         writes |-> <<"db">>,
         steps  |-> <<"mutate", "persist", "put">>]

\* A slip: the deletion is not written to the file.
deleteAlgoSettingResultMemoryOnly(mongo, f, docs, sd, settingName) ==
    LET sd2 == DictDel(sd, settingName)
    IN  [dict   |-> sd2,
         file   |-> f,
         db     |-> IF ~mongo THEN docs ELSE dbDelete(docs, settingName),
         events |-> <<putSettingEvent(settingName, EmptyPayload)>>,
         writes |-> IF ~mongo THEN <<>> ELSE <<"db">>,
         steps  |-> IF ~mongo THEN <<"mutate", "put">>
                    ELSE <<"mutate", "persist", "put">>]

\* deleteAlgoSetting of a settingName the map holds.
deleteAlgoSettingResult(mongo, f, docs, sd, settingName) ==
    LET sd2 == DictDel(sd, settingName)
    IN  [dict   |-> sd2,
         file   |-> IF ~mongo THEN saveAlgoSettingToFileResult(sd2) ELSE f,
         db     |-> IF ~mongo THEN docs ELSE dbDelete(docs, settingName),
         events |-> <<putSettingEvent(settingName, EmptyPayload)>>,
         writes |-> IF ~mongo THEN <<"file">> ELSE <<"db">>,
         steps  |-> <<"mutate", "persist", "put">>]

saveAlgoSetting(algoSetting) ==
    LET r == saveAlgoSettingResult(use_mongodb, file, db, settingDict, algoSetting)
    IN  /\ settingDict' = r.dict
        /\ file' = r.file
        /\ db' = r.db
        /\ events' = r.events
        /\ writes' = r.writes
        /\ steps' = r.steps
        /\ call' = Call("saveAlgoSetting", 0, algoSetting.settingName, 0,
                        FALSE, 0, 0)
        /\ UNCHANGED <<use_mongodb, registryVars,
                   serverVars, contextVars>>

deleteAlgoSetting(settingName) ==
    /\ IF DictHas(settingDict, settingName)
       THEN LET r == deleteAlgoSettingResult(use_mongodb, file, db, settingDict,
                                             settingName)
            IN  /\ settingDict' = r.dict
                /\ file' = r.file
                /\ db' = r.db
                /\ events' = r.events
                /\ writes' = r.writes
                /\ steps' = r.steps
                /\ call' = Call("deleteAlgoSetting", 0, settingName, 0,
                                FALSE, 0, 0)
       ELSE \* del self.settingDict[settingName] raises KeyError
            /\ call' = Call("deleteAlgoSetting", 0, settingName, 0, TRUE, 0, 0)
            /\ events' = <<>>
            /\ writes' = <<>>
            /\ steps' = <<>>
            /\ UNCHANGED <<settingDict, file, db>>
    /\ UNCHANGED <<use_mongodb, registryVars,
                   serverVars, contextVars>>

loadAlgoSetting ==
    LET r == loadAlgoSettingResult(use_mongodb, file, db, settingDict)
    IN  /\ settingDict' = r.dict
        /\ events' = r.events
        /\ writes' = <<>>
        /\ steps' = <<>>
        /\ call' = Call("loadAlgoSetting", 0, "", 0, FALSE, 0, r.logs)
        /\ UNCHANGED <<use_mongodb, file, db, registryVars,
                   serverVars, contextVars>>

saveAlgoSettingToFile ==
    /\ file' = saveAlgoSettingToFileResult(settingDict)
    /\ events' = <<>>
    /\ writes' = <<"file">>
    /\ steps' = <<"persist">>
    /\ call' = Call("saveAlgoSettingToFile", 0, "", 0, FALSE, 0, 0)
    /\ UNCHANGED <<use_mongodb, settingDict, db, registryVars,
                   serverVars, contextVars>>

loadAlgoSettingFromFile ==
    LET r == loadAlgoSettingFromFileResult(file, settingDict)
    IN  /\ settingDict' = r.dict
        /\ events' = r.events
        /\ writes' = <<>>
        /\ steps' = <<>>
        /\ call' = Call("loadAlgoSettingFromFile", 0, "", 0, FALSE, 0, r.logs)
        /\ UNCHANGED <<use_mongodb, file, db, registryVars,
                   serverVars, contextVars>>

\* AlgoEngine.__init__ of a new engine over the same file and collection: the
\* engine is started again with the flag it was configured with.
restart ==
    /\ settingDict' = EmptyDict
    /\ events' = <<>>
    /\ writes' = <<>>
    /\ steps' = <<>>
    /\ call' = Call("__init__", 0, "", 0, FALSE, 0, 0)
    /\ UNCHANGED <<use_mongodb, file, db, registryVars,
                   serverVars, contextVars>>

\* ------------------------------------------------- control server, history
\* self.rpcServer = None
None == [repPort |-> 0, pubPort |-> 0, active |-> FALSE]

\* AlgoRpcServer(engine, repPort, pubPort): bound to the two ports, not yet
\* started; addAlgo, stopAlgo and stopAll are registered on it.
AlgoRpcServer(repPort, pubPort) ==
    [repPort |-> repPort, pubPort |-> pubPort, active |-> FALSE]

\* RpcServer.start and RpcServer.stop
rpcStart(server) == [server EXCEPT !.active = TRUE]

rpcStop(server) == [server EXCEPT !.active = FALSE]

\* A slip: startRpc builds and starts a server whatever self.rpcServer holds.
startRpcResultAgain(server, made, repPort, pubPort) ==
    [server |-> rpcStart(AlgoRpcServer(repPort, pubPort)),
     made |-> made + 1, steps |-> <<"new", "start">>, logs |-> 1]

\* startRpc: self.rpcServer and the number of servers built after it, the
\* steps it takes and the number of log events.
startRpcResult(server, made, repPort, pubPort) ==
    IF server # None
    THEN [server |-> server, made |-> made, steps |-> <<>>, logs |-> 0]
    ELSE [server |-> rpcStart(AlgoRpcServer(repPort, pubPort)),
          made |-> made + 1, steps |-> <<"new", "start">>, logs |-> 1]

startRpc(repPort, pubPort) ==
    LET r == startRpcResult(rpcServer, serversMade, repPort, pubPort)
    IN  /\ rpcServer' = r.server
        /\ serversMade' = r.made
        /\ steps' = r.steps
        /\ published' = <<>>
        /\ call' = Call("startRpc", 0, "", repPort, FALSE, 0, r.logs)
        /\ UNCHANGED <<historyDict, historyDb, registryVars, settingVars,
                       contextVars>>

\* AlgoEngine.stop
stop ==
    /\ rpcServer' = IF rpcServer # None THEN rpcStop(rpcServer) ELSE rpcServer
    /\ steps' = IF rpcServer # None THEN <<"stop">> ELSE <<>>
    /\ published' = <<>>
    /\ call' = Call("stop", 0, "", 0, FALSE, 0, 0)
    /\ UNCHANGED <<serversMade, historyDict, historyDb, registryVars,
                   settingVars, contextVars>>

\* mainEngine.dbUpdate(db, HISTORY_COLLECTION_NAME, history,
\* {'algoName': algoName}, True)
dbUpdateHistory(docs, history, algoName) ==
    IF \E i \in 1..Len(docs) : docs[i].algoName = algoName
    THEN LET i == CHOOSE j \in 1..Len(docs) : docs[j].algoName = algoName
         IN  [docs EXCEPT ![i] = history]
    ELSE Append(docs, history)

\* history = self.historyDict.setdefault(algoName, {});
\* history['algoName'] = algoName; history[key] = d
setHistory(hd, algoName, key, d) ==
    LET old == IF DictHas(hd, algoName) THEN DictGet(hd, algoName) ELSE <<>>
    IN  (key :> d) @@ ("algoName" :> algoName) @@ old

\* putVarEvent and putParamEvent, which differ in the event type and the key
\* of the history: the event, what is published, the history and its
\* collection after the call, and the steps in the order of the code: "put"
\* the event, "publish" it on the server, "mutate" the history, "persist" it.
putEventResult(type, key, mongo, server, hd, docs, algoName, d) ==
    LET data == ("algoName" :> algoName) @@ d
        event == [type |-> type, data |-> data]
        pub == IF server # None
               THEN <<[topic |-> "AlgoTrading", event |-> event]>> ELSE <<>>
        history == setHistory(hd, algoName, key, data)
    IN  [events  |-> <<event>>,
         pubs    |-> pub,
         history |-> IF mongo THEN DictSet(hd, algoName, history) ELSE hd,
         docs    |-> IF mongo THEN dbUpdateHistory(docs, history, algoName)
                     ELSE docs,
         steps   |-> <<"put">>
                     \o (IF server # None THEN <<"publish">> ELSE <<>>)
                     \o (IF mongo THEN <<"mutate", "persist">> ELSE <<>>)]

\* What both leave alone, and the record of the call.
PutEvent(op, algo, r) ==
    /\ events' = r.events
    /\ published' = r.pubs
    /\ historyDict' = r.history
    /\ historyDb' = r.docs
    /\ steps' = r.steps
    /\ writes' = <<>>
    /\ call' = Call(op, algo, "", 0, FALSE, 0, 0)
    /\ UNCHANGED <<rpcServer, serversMade, use_mongodb, settingDict, file, db,
                   registryVars, contextVars>>

putVarEvent(algo, d) ==
    /\ algo \in 1..created
    /\ PutEvent("putVarEvent", algo,
                putEventResult("eAlgoVar", "var", use_mongodb, rpcServer,
                               historyDict, historyDb, algo, d))

putParamEvent(algo, d) ==
    /\ algo \in 1..created
    /\ PutEvent("putParamEvent", algo,
                putEventResult("eAlgoParam", "param", use_mongodb, rpcServer,
                               historyDict, historyDb, algo, d))


\* ------------------------------------------------------ hooks that raise
\* The orders in which a for loop can go through the set S.
Orders(S) ==
    {l \in [1..Cardinality(S) -> S] :
        \A i, j \in 1..Cardinality(S) : l[i] = l[j] => i = j}

\* for algo in l: algo.updateTick(tick), where updateTick of the instances in
\* raising raises: the hooks called, in order, and whether the loop was left
\* by an exception. Nothing in the loop catches it.
RECURSIVE tickLoop(_, _, _, _)
tickLoop(l, i, raising, called) ==
    IF i > Len(l)
    THEN [called |-> called, raised |-> FALSE]
    ELSE IF l[i] \in raising
    THEN [called |-> Append(called, l[i]), raised |-> TRUE]
    ELSE tickLoop(l, i + 1, raising, Append(called, l[i]))

\* processTickEvent when updateTick of the instances in raising raises. The
\* set of a symbol is gone through in an order the code does not choose.
processTickEventRaising(vtSymbol, raising) ==
    /\ raising \subseteq tickTargets(symbolAlgoDict, vtSymbol)
    /\ \E l \in Orders(tickTargets(symbolAlgoDict, vtSymbol)) :
          LET r == tickLoop(l, 1, raising, <<>>)
          IN  /\ hookCalls' = [a \in Algos |-> Count(r.called, a)]
              /\ call' = Call("processTickEvent", 0, vtSymbol, 0, r.raised, 0, 0)
    /\ faulty' = raising
    /\ upstream' = {}
    /\ UNCHANGED <<algoDict, orderAlgoDict, symbolAlgoDict, created, ordersSent,
                   subCount, placedBy, joined, stopCalls, settingVars,
                   publishVars, pc>>

\* ------------------------------------------------------- two call contexts
\* The handlers below are the methods above taken one access to an index at
\* a time, each in the context that runs it. The engine holds no lock, so a
\* step of one context can come between two steps of the other.
\*
\* pc[c] holds the method context c is in (op), the place in it (at), the
\* name or order id it works on (arg), the instance that called (algo), and,
\* for a loop over a dict view, the size the dict had when the loop began
\* (used) and the key the iterator gave last (last).
Idle == [op |-> "idle", at |-> "", arg |-> 0, algo |-> 0, used |-> 0, last |-> 0]

\* What the steps of both contexts leave alone.
Stepped ==
    /\ upstream' = {}
    /\ UNCHANGED <<symbolAlgoDict, subCount, joined, settingVars, publishVars,
                   faulty>>

\* The keys a view's iterator has still to give: entries are kept in the
\* order they were added, names grow with every instance built, and a deleted
\* entry is skipped.
rest(d, last) == {k \in DictKeys(d) : k > last}

Min(S) == CHOOSE x \in S : \A y \in S : x <= y

\* Where context c goes on when its stopAlgo returns.
return(c) ==
    IF pc[c].op = "stopAll"
    THEN [pc EXCEPT ![c] = [@ EXCEPT !.at = "next", !.arg = 0]]
    ELSE [pc EXCEPT ![c] = Idle]

\* addAlgo in context c: it touches algoDict once.
addAlgoIn(c) ==
    /\ pc[c] = Idle
    /\ addAlgo("Twap")

\* stopAlgo(algoName) is called in context c.
stopAlgoCall(c, algoName) ==
    /\ pc[c] = Idle
    /\ pc' = [pc EXCEPT ![c] = [Idle EXCEPT !.op = "stopAlgo", !.at = "check",
                                           !.arg = algoName]]
    /\ call' = Call("stopAlgo", 0, c, algoName, FALSE, 0, 0)
    /\ hookCalls' = NoHooks
    /\ Stepped
    /\ UNCHANGED <<algoDict, orderAlgoDict, created, ordersSent, placedBy,
                   stopCalls>>

\* if algoName in self.algoDict:
stopAlgoCheck(c) ==
    /\ pc[c].at = "check"
    /\ pc' = IF DictHas(algoDict, pc[c].arg)
             THEN [pc EXCEPT ![c] = [@ EXCEPT !.at = "stop"]]
             ELSE return(c)
    /\ call' = Call("stopAlgo", 0, c, pc[c].arg, FALSE, 0, 0)
    /\ hookCalls' = NoHooks
    /\ Stepped
    /\ UNCHANGED <<algoDict, orderAlgoDict, created, ordersSent, placedBy,
                   stopCalls>>

\* self.algoDict[algoName].stop(): KeyError when the name is gone.
stopAlgoStop(c) ==
    /\ pc[c].at = "stop"
    /\ IF DictHas(algoDict, pc[c].arg)
       THEN LET algo == DictGet(algoDict, pc[c].arg)
            IN  /\ hookCalls' = [a \in Algos |-> IF a = algo THEN 1 ELSE 0]
                /\ stopCalls' = [stopCalls EXCEPT ![algo] = @ + 1]
                /\ pc' = [pc EXCEPT ![c] = [@ EXCEPT !.at = "del"]]
                /\ call' = Call("stopAlgo", 0, c, pc[c].arg, FALSE, 0, 0)
       ELSE /\ hookCalls' = NoHooks
            /\ pc' = [pc EXCEPT ![c] = Idle]
            /\ call' = Call("stopAlgo", 0, c, pc[c].arg, TRUE, 0, 0)
            /\ UNCHANGED stopCalls
    /\ Stepped
    /\ UNCHANGED <<algoDict, orderAlgoDict, created, ordersSent, placedBy>>

\* del self.algoDict[algoName]: KeyError when the name is gone.
stopAlgoDel(c) ==
    /\ pc[c].at = "del"
    /\ IF DictHas(algoDict, pc[c].arg)
       THEN /\ algoDict' = DictDel(algoDict, pc[c].arg)
            /\ pc' = return(c)
            /\ call' = Call("stopAlgo", 0, c, pc[c].arg, FALSE, 0, 0)
       ELSE /\ pc' = [pc EXCEPT ![c] = Idle]
            /\ call' = Call("stopAlgo", 0, c, pc[c].arg, TRUE, 0, 0)
            /\ UNCHANGED algoDict
    /\ hookCalls' = NoHooks
    /\ Stepped
    /\ UNCHANGED <<orderAlgoDict, created, ordersSent, placedBy, stopCalls>>

\* stopAll is called in context c: l = self.algoDict.keys(), and the loop
\* begins.
stopAllCall(c) ==
    /\ pc[c] = Idle
    /\ pc' = [pc EXCEPT ![c] = [Idle EXCEPT !.op = "stopAll", !.at = "next",
                                           !.used = Len(algoDict)]]
    /\ call' = Call("stopAll", 0, c, Len(algoDict), FALSE, 0, 0)
    /\ hookCalls' = NoHooks
    /\ Stepped
    /\ UNCHANGED <<algoDict, orderAlgoDict, created, ordersSent, placedBy,
                   stopCalls>>

\* for algoName in l: the iterator raises RuntimeError when the dict's size
\* has changed, ends the loop when no key is left, and else gives the next
\* key, with which stopAlgo is called.
stopAllNext(c) ==
    /\ pc[c].op = "stopAll" /\ pc[c].at = "next"
    /\ IF Len(algoDict) # pc[c].used
       THEN /\ pc' = [pc EXCEPT ![c] = Idle]
            /\ call' = Call("stopAll", 0, c, pc[c].used, TRUE, 0, 0)
       ELSE IF rest(algoDict, pc[c].last) = {}
       THEN /\ pc' = [pc EXCEPT ![c] = Idle]
            /\ call' = Call("stopAll", 0, c, pc[c].used, FALSE, 0, 0)
       ELSE LET algoName == Min(rest(algoDict, pc[c].last))
            IN  /\ pc' = [pc EXCEPT ![c] = [@ EXCEPT !.at = "check",
                                                    !.arg = algoName,
                                                    !.last = algoName]]
                /\ call' = Call("stopAll", 0, c, pc[c].used, FALSE, 0, 0)
    /\ hookCalls' = NoHooks
    /\ Stepped
    /\ UNCHANGED <<algoDict, orderAlgoDict, created, ordersSent, placedBy,
                   stopCalls>>

\* A timer event is taken by the event thread: the loop over
\* self.algoDict.values() begins.
processTimerEventCall ==
    /\ pc["event"] = Idle
    /\ pc' = [pc EXCEPT !["event"] = [Idle EXCEPT !.op = "processTimerEvent",
                                                 !.at = "next",
                                                 !.used = Len(algoDict)]]
    /\ call' = Call("processTimerEvent", 0, "event", 0, FALSE, 0, 0)
    /\ hookCalls' = NoHooks
    /\ Stepped
    /\ UNCHANGED <<algoDict, orderAlgoDict, created, ordersSent, placedBy,
                   stopCalls>>

\* for algo in self.algoDict.values(): algo.updateTimer()
processTimerEventNext ==
    /\ pc["event"].op = "processTimerEvent"
    /\ IF Len(algoDict) # pc["event"].used
       THEN /\ pc' = [pc EXCEPT !["event"] = Idle]
            /\ hookCalls' = NoHooks
            /\ call' = Call("processTimerEvent", 0, "event", 0, TRUE, 0, 0)
       ELSE IF rest(algoDict, pc["event"].last) = {}
       THEN /\ pc' = [pc EXCEPT !["event"] = Idle]
            /\ hookCalls' = NoHooks
            /\ call' = Call("processTimerEvent", 0, "event", 0, FALSE, 0, 0)
       ELSE LET algoName == Min(rest(algoDict, pc["event"].last))
                algo == DictGet(algoDict, algoName)
            IN  /\ pc' = [pc EXCEPT !["event"] = [@ EXCEPT !.last = algoName]]
                /\ hookCalls' = [a \in Algos |-> IF a = algo THEN 1 ELSE 0]
                /\ call' = Call("processTimerEvent", algo, "event", 0, FALSE,
                                0, 0)
    /\ Stepped
    /\ UNCHANGED <<algoDict, orderAlgoDict, created, ordersSent, placedBy,
                   stopCalls>>

\* sendOrder of an instance, called in context c for a symbol with a
\* contract: vtOrderID = self.mainEngine.sendOrder(req, contract.gatewayName).
\* From here on the gateway can report on the order.
sendOrderSubmit(c, algo) ==
    /\ pc[c] = Idle
    /\ algo \in 1..created
    /\ ordersSent < MaxOrder
    /\ LET vtOrderID == mainSendOrder(ordersSent)
       IN  /\ pc' = [pc EXCEPT ![c] = [Idle EXCEPT !.op = "sendOrder",
                                                  !.at = "record",
                                                  !.arg = vtOrderID,
                                                  !.algo = algo]]
           /\ placedBy' = (vtOrderID :> algo) @@ placedBy
           /\ call' = Call("sendOrder", algo, c, 0, FALSE, 0, 0)
    /\ ordersSent' = ordersSent + 1
    /\ hookCalls' = NoHooks
    /\ upstream' = {[req |-> "sendOrder", sym |-> "X"]}
    /\ UNCHANGED <<algoDict, orderAlgoDict, symbolAlgoDict, created, subCount,
                   joined, stopCalls, settingVars, publishVars, faulty>>

\* self.orderAlgoDict[vtOrderID] = algo; return vtOrderID
sendOrderRecord(c) ==
    /\ pc[c].op = "sendOrder"
    /\ orderAlgoDict' = sendOrderDict(orderAlgoDict, pc[c].arg, pc[c].algo)
    /\ pc' = [pc EXCEPT ![c] = Idle]
    /\ call' = Call("sendOrder", pc[c].algo, c, 0, FALSE, pc[c].arg, 0)
    /\ hookCalls' = NoHooks
    /\ Stepped
    /\ UNCHANGED <<algoDict, created, ordersSent, placedBy, stopCalls>>

\* The event thread takes an order or trade event the gateway has put for an
\* order it was handed.
processOrderEventIn(vtOrderID) ==
    /\ pc["event"] = Idle
    /\ vtOrderID \in 1..ordersSent
    /\ processOrderEvent(vtOrderID)

processTradeEventIn(vtOrderID) ==
    /\ pc["event"] = Idle
    /\ vtOrderID \in 1..ordersSent
    /\ processTradeEvent(vtOrderID)

\* --------------------------------------------------------------------- spec
vars == <<registryVars, settingVars, publishVars, contextVars, call>>

InitRegistry ==
    /\ algoDict = EmptyDict
    /\ orderAlgoDict = <<>>
    /\ symbolAlgoDict = <<>>
    /\ created = 0
    /\ ordersSent = 0
    /\ call = Call("__init__", 0, "", 0, FALSE, 0, 0)
    /\ hookCalls = NoHooks
    /\ upstream = {}
    /\ subCount = [s \in Symbols |-> 0]
    /\ placedBy = <<>>
    /\ joined = [s \in Symbols |-> {}]
    /\ stopCalls = [a \in Algos |-> 0]

InitSetting ==
    /\ settingDict = EmptyDict
    /\ file = NoFile
    /\ db = <<>>
    /\ events = <<>>
    /\ writes = <<>>

InitPublish ==
    /\ rpcServer = None
    /\ serversMade = 0
    /\ historyDict = EmptyDict
    /\ historyDb = <<>>
    /\ published = <<>>
    /\ steps = <<>>

InitContext ==
    /\ pc = [c \in Contexts |-> Idle]
    /\ faulty = {}

\* The engine as built by default (use_mongodb=False), and its routing.
Init ==
    /\ InitRegistry
    /\ InitSetting
    /\ InitPublish
    /\ InitContext
    /\ use_mongodb = FALSE

Next ==
    \/ \E t \in TemplateNames : addAlgo(t)
    \/ \E n \in Algos : stopAlgo(n)
    \/ stopAll
    \/ \E a \in Algos, s \in Symbols : subscribe(a, s)
    \/ \E a \in Algos, s \in Symbols : sendOrder(a, s)
    \/ \E s \in Symbols : processTickEvent(s)
    \/ \E o \in OrderIDs : processOrderEvent(o)
    \/ \E o \in OrderIDs : processTradeEvent(o)
    \/ processTimerEvent

Spec == Init /\ [][Next]_vars

\* The setting store of an engine built with either backend.
InitStore ==
    /\ InitRegistry
    /\ InitSetting
    /\ InitPublish
    /\ InitContext
    /\ use_mongodb \in BOOLEAN

NextStore ==
    \/ \E algoSetting \in Settings : saveAlgoSetting(algoSetting)
    \/ \E n \in SettingNames : deleteAlgoSetting(n)
    \/ loadAlgoSetting
    \/ saveAlgoSettingToFile
    \/ loadAlgoSettingFromFile
    \/ restart

SpecStore == InitStore /\ [][NextStore]_vars

\* The control server of an engine built by default, and what is published
\* on it.
NextRpc ==
    \/ addAlgo("Twap")
    \/ \E repPort \in Ports, pubPort \in Ports : startRpc(repPort, pubPort)
    \/ stop
    \/ \E a \in Algos, d \in Payloads : putVarEvent(a, d)
    \/ \E a \in Algos, d \in Payloads : putParamEvent(a, d)

SpecRpc == Init /\ [][NextRpc]_vars

\* The tick dispatch with hooks that raise.
NextFaults ==
    \/ addAlgo("Twap")
    \/ \E n \in Algos : stopAlgo(n)
    \/ \E a \in Algos, s \in Symbols : subscribe(a, s)
    \/ \E s \in Symbols, raising \in SUBSET Algos :
          processTickEventRaising(s, raising)

SpecFaults == Init /\ [][NextFaults]_vars

\* The two call contexts, each taking the methods one step at a time.
NextThreads ==
    \/ \E c \in Contexts : addAlgoIn(c)
    \/ \E c \in Contexts, n \in Algos : stopAlgoCall(c, n)
    \/ \E c \in Contexts : stopAlgoCheck(c)
    \/ \E c \in Contexts : stopAlgoStop(c)
    \/ \E c \in Contexts : stopAlgoDel(c)
    \/ \E c \in Contexts : stopAllCall(c)
    \/ \E c \in Contexts : stopAllNext(c)
    \/ processTimerEventCall
    \/ processTimerEventNext
    \/ \E c \in Contexts, a \in Algos : sendOrderSubmit(c, a)
    \/ \E c \in Contexts : sendOrderRecord(c)
    \/ \E o \in OrderIDs : processOrderEventIn(o)
    \/ \E o \in OrderIDs : processTradeEventIn(o)

SpecThreads == Init /\ [][NextThreads]_vars

\* The operations that put an event and write to a backend, with either
\* backend, with and without a control server.
NextPersist ==
    \/ addAlgo("Twap")
    \/ startRpc(1, 2)
    \/ \E a \in Algos : putVarEvent(a, [pos |-> 1])
    \/ \E a \in Algos : putParamEvent(a, [pos |-> 1])
    \/ saveAlgoSetting(Setting("T1", 1))
    \/ \E n \in SettingNames : deleteAlgoSetting(n)

SpecPersist == InitStore /\ [][NextPersist]_vars

\* ------------------------------------------------------------------- claims
Hooks(S) == [a \in Algos |-> IF a \in S THEN 1 ELSE 0]

RECURSIVE SumOver(_, _)
SumOver(f, S) ==
    IF S = {} THEN 0
    ELSE LET x == CHOOSE y \in S : TRUE IN f[x] + SumOver(f, S \ {x})

\* The map a dict stands for, whatever the order of its entries.
AsMap(d) == [k \in DictKeys(d) |-> DictGet(d, k)]

\* C1: an order or trade event that carries an order id sendOrder returned to
\* an instance calls updateOrder / updateTrade of that instance, once, and of
\* no other instance.
C1_OrderEventsGoToTheOriginator ==
    (call.op \in {"processOrderEvent", "processTradeEvent"}
        /\ call.num \in DOMAIN placedBy)
    => hookCalls = Hooks({placedBy[call.num]})

C1_Witness ==
    /\ call.op = "processTradeEvent"
    /\ call.num \in DOMAIN placedBy
    /\ placedBy[call.num] = 2
    /\ hookCalls = Hooks({2})

\* C2: mainEngine.subscribe is called once for each symbol some instance has
\* subscribed to with a known contract, on the first such subscribe, and never
\* again for that symbol; the number of upstream calls never exceeds the
\* number of distinct subscribed symbols.
C2_OneUpstreamSubscribePerSymbol ==
    /\ \A s \in Symbols : subCount[s] = IF joined[s] = {} THEN 0 ELSE 1
    /\ SumOver(subCount, Symbols)
          <= Cardinality({s \in Symbols : joined[s] # {}})
    /\ (call.op = "subscribe" /\ upstream # {})
          => (upstream = {[req |-> "subscribe", sym |-> call.sym]}
                /\ joined[call.sym] = {call.algo})

C2_Witness ==
    /\ call.op = "subscribe"
    /\ joined["X"] = {1, 2}
    /\ joined["Y"] # {}
    /\ subCount["X"] = 1
    /\ upstream = {}

\* C3 (as claimed): stopAll after N addAlgo calls ends without error, leaves
\* the active set empty and has called the stop hook of each of the N
\* instances once.
C3_StopAllStopsEveryInstance ==
    call.op = "stopAll"
    => /\ ~call.raised
       /\ algoDict = EmptyDict
       /\ SumOver(hookCalls, Algos) = call.num
       /\ \A a \in Algos : hookCalls[a] <= 1

\* C4: stopAlgo(name) on an active name calls that instance's stop hook and
\* removes the name from the active set; on a name that is not active it
\* raises nothing, calls no stop hook and leaves every index unchanged.
C4_StopAlgo ==
    [][call'.op = "stopAlgo"
        => LET n == call'.num
           IN  /\ ~call'.raised
               /\ IF DictHas(algoDict, n)
                  THEN /\ hookCalls' = Hooks({DictGet(algoDict, n)})
                       /\ algoDict' = DictDel(algoDict, n)
                       /\ ~DictHas(algoDict', n)
                  ELSE /\ hookCalls' = NoHooks
                       /\ UNCHANGED <<algoDict, orderAlgoDict, symbolAlgoDict,
                                      stopCalls>>]_vars

\* A second stopAlgo of a name that was stopped before.
C4_Witness ==
    /\ call.op = "stopAlgo"
    /\ stopCalls[call.num] = 1
    /\ hookCalls = NoHooks
    /\ Len(algoDict) = 1

\* C5: addAlgo with a valid templateName returns a name that was not in the
\* active set, and on return that name maps to the new instance; no entry
\* that was active is replaced or removed, and no name is active twice.
C5_AddAlgoGivesAFreshName ==
    [][(call'.op = "addAlgo" /\ ~call'.raised)
        => LET n == call'.ret
           IN  /\ ~DictHas(algoDict, n)
               /\ DictHas(algoDict', n)
               /\ DictGet(algoDict', n) = created'
               /\ \A k \in DictKeys(algoDict) :
                     DictHas(algoDict', k)
                        /\ DictGet(algoDict', k) = DictGet(algoDict, k)
               /\ Cardinality(DictKeys(algoDict')) = Len(algoDict')
               /\ Len(algoDict') = Len(algoDict) + 1]_vars

C5_Witness ==
    /\ call.op = "addAlgo"
    /\ ~call.raised
    /\ call.ret = 2
    /\ DictKeys(algoDict) = {1, 2}

\* C6: a tick for a symbol calls updateTick once of every instance whose
\* subscribe to that symbol went through, and of no other instance; a tick
\* for a symbol nobody subscribed to calls nobody.
C6_TickFanOut ==
    call.op = "processTickEvent" => hookCalls = Hooks(joined[call.sym])

C6_Witness ==
    /\ call.op = "processTickEvent"
    /\ joined[call.sym] = {1, 2}
    /\ hookCalls = Hooks({1, 2})

\* C7 (as claimed): saveAlgoSetting updates the in-memory map, writes the
\* setting to the backend chosen at construction and to no other, and puts
\* one setting event.
C7_SaveWritesTheChosenBackend ==
    call.op = "saveAlgoSetting"
    => /\ DictHas(settingDict, call.sym)
       /\ Len(events) = 1
       /\ writes = <<IF use_mongodb THEN "db" ELSE "file">>

\* C8: after deleteAlgoSetting of a saved setting the entry is in neither the
\* in-memory map nor the active backend, a loadAlgoSetting that follows (by
\* this engine or a restarted one) does not bring it back, and one setting
\* event for that name with an empty payload has been put.
C8_DeleteRemovesTheSetting ==
    (call.op = "deleteAlgoSetting" /\ ~call.raised)
    => LET n == call.sym
       IN  /\ ~DictHas(settingDict, n)
           /\ IF use_mongodb
              THEN \A i \in 1..Len(db) : db[i].settingName # n
              ELSE /\ file.exists
                   /\ \A i \in 1..Len(file.text) :
                         jsonLoad(file.text)[i].settingName # n
           /\ ~DictHas(loadAlgoSettingResult(use_mongodb, file, db,
                                             settingDict).dict, n)
           /\ ~DictHas(loadAlgoSettingResult(use_mongodb, file, db,
                                             EmptyDict).dict, n)
           /\ events = <<[settingName |-> n]>>

\* A deletion on the file backend while another setting stays.
C8_Witness ==
    /\ call.op = "deleteAlgoSetting"
    /\ ~call.raised
    /\ ~use_mongodb
    /\ Len(settingDict) = 1
    /\ Len(file.text) = 1

\* C9: saveAlgoSettingToFile, then loadAlgoSettingFromFile into the same map
\* or into an empty one, gives the in-memory map there was, keyed by
\* settingName, whatever the order of the entries.
C9_FileRoundTrip ==
    LET f == saveAlgoSettingToFileResult(settingDict)
    IN  /\ AsMap(loadAlgoSettingFromFileResult(f, settingDict).dict)
              = AsMap(settingDict)
        /\ AsMap(loadAlgoSettingFromFileResult(f, EmptyDict).dict)
              = AsMap(settingDict)

\* A load of the file that was saved from a map of two settings.
C9_Witness ==
    /\ call.op = "loadAlgoSettingFromFile"
    /\ Len(settingDict) = 2
    /\ file = saveAlgoSettingToFileResult(settingDict)
    /\ DictGet(settingDict, "T1").volume # DictGet(settingDict, "T2").volume

\* C10: stopAlgo and stopAll leave orderAlgoDict and symbolAlgoDict unchanged:
\* every order id an instance placed still resolves to it and it stays in the
\* subscription sets it joined.
C10_StopLeavesTheOtherIndices ==
    [][call'.op \in {"stopAlgo", "stopAll"}
        => /\ UNCHANGED <<orderAlgoDict, symbolAlgoDict>>
           /\ \A o \in DOMAIN placedBy :
                 orderTargets(orderAlgoDict', o) = {placedBy[o]}
           /\ \A s \in Symbols :
                 joined[s] \subseteq tickTargets(symbolAlgoDict', s)]_vars

\* An instance that placed an order and joined a symbol has been stopped.
C10_Witness ==
    /\ call.op = "stopAlgo"
    /\ hookCalls[call.num] = 1
    /\ \E o \in DOMAIN orderAlgoDict : orderAlgoDict[o] = call.num
    /\ \E s \in DOMAIN symbolAlgoDict : call.num \in symbolAlgoDict[s]

\* C11: a symbol has a non-empty subscription set only if an upstream
\* subscription request was issued for it; a subscribe whose contract lookup
\* fails creates no set and issues no upstream request.
C11_SetOnlyWithUpstreamRequest ==
    /\ \A s \in DOMAIN symbolAlgoDict :
          symbolAlgoDict[s] # {} => subCount[s] >= 1
    /\ \A s \in Symbols \ KnownContracts :
          s \notin DOMAIN symbolAlgoDict /\ subCount[s] = 0
    /\ (call.op = "subscribe" /\ ~getContract(call.sym)) => upstream = {}

\* A subscribe for a symbol without contract, after one that went through.
C11_Witness ==
    /\ call.op = "subscribe"
    /\ call.sym = "Z"
    /\ call.logs = 1
    /\ "X" \in DOMAIN symbolAlgoDict

\* C16 (as claimed): when the contract lookup fails, sendOrder logs a warning
\* and does nothing more: no request is submitted, no owner is recorded and
\* nothing is raised.
C16_SendOrderWithoutContractIsANoOp ==
    (call.op = "sendOrder" /\ ~getContract(call.sym))
    => /\ call.logs = 1
       /\ upstream = {}
       /\ call.ret = 0
       /\ DOMAIN orderAlgoDict = DOMAIN placedBy
       /\ ~call.raised

\* C17 (as claimed): addAlgo with a templateName that is not registered fails
\* with an error the caller sees and a log event, and builds no instance.
C17_UnknownTemplateIsLogged ==
    (call.op = "addAlgo" /\ call.sym \notin ALGO_DICT)
    => /\ call.raised
       /\ call.ret = 0
       /\ call.logs >= 1

\* C18: a timer event calls updateTimer once of every instance in the active
\* set and of no other; an instance that stopAlgo has stopped gets no timer
\* event any more.
C18_TimerGoesToTheActiveInstances ==
    call.op = "processTimerEvent"
    => /\ hookCalls = Hooks({DictGet(algoDict, k) : k \in DictKeys(algoDict)})
       /\ \A a \in Algos : stopCalls[a] > 0 => hookCalls[a] = 0
       /\ \A a \in Algos : a > created => hookCalls[a] = 0

\* A timer event with one instance active and the other stopped.
C18_Witness ==
    /\ call.op = "processTimerEvent"
    /\ stopCalls[1] = 1
    /\ hookCalls = Hooks({2})

\* C12: at most one control server is ever built and started; a startRpc
\* called when self.rpcServer is set changes nothing, whatever the ports; and
\* stop stops the server exactly when one was started.
C12_ServerStartsAtMostOnce ==
    [][/\ serversMade' <= 1
       /\ (call'.op = "startRpc" /\ rpcServer # None)
          => /\ UNCHANGED <<rpcServer, serversMade, historyDict, historyDb,
                            registryVars, settingVars>>
             /\ steps' = <<>>
             /\ call'.logs = 0
       /\ (call'.op = "startRpc" /\ rpcServer = None)
          => /\ serversMade' = 1
             /\ rpcServer'.active
             /\ steps' = <<"new", "start">>
       /\ call'.op = "stop"
          => /\ steps' = IF serversMade = 0 THEN <<>> ELSE <<"stop">>
             /\ serversMade' = serversMade]_vars

C12_Witness ==
    /\ call.op = "startRpc" /\ call.num = 2
    /\ rpcServer = rpcStart(AlgoRpcServer(1, 1))
    /\ serversMade = 1
    /\ steps = <<>>

\* Whether step x comes before step y in the sequence s of steps.
Before(s, x, y) ==
    \E i \in 1..Len(s), j \in 1..Len(s) : i < j /\ s[i] = x /\ s[j] = y

Has(s, x) == \E i \in 1..Len(s) : s[i] = x

\* The calls of the four operations that both put an event and write to a
\* backend.
PutsAndPersists ==
    /\ call.op \in {"saveAlgoSetting", "deleteAlgoSetting", "putVarEvent",
                    "putParamEvent"}
    /\ Has(steps, "put")
    /\ Has(steps, "persist")

\* C19 (as claimed): an operation that both publishes and persists mutates
\* the in-memory state, then puts the event, then writes to the backend.
C19_MutateThenPublishThenPersist ==
    PutsAndPersists
    => /\ Before(steps, "mutate", "put")
       /\ Before(steps, "put", "persist")
       /\ ~Before(steps, "persist", "put")

\* C19 (amended): saveAlgoSetting and deleteAlgoSetting mutate the map, then
\* write to the backend, then put the event; putVarEvent and putParamEvent
\* with persistence enabled put the event (and publish it on the control
\* server when there is one), then mutate the history, then write it.
C19_OrderOfSteps ==
    /\ (PutsAndPersists /\ call.op \in {"saveAlgoSetting", "deleteAlgoSetting"})
       => steps = <<"mutate", "persist", "put">>
    /\ (PutsAndPersists /\ call.op \in {"putVarEvent", "putParamEvent"})
       => /\ use_mongodb
          /\ steps = IF rpcServer # None
                     THEN <<"put", "publish", "mutate", "persist">>
                     ELSE <<"put", "mutate", "persist">>

C19_Witness ==
    /\ call.op = "putParamEvent"
    /\ steps = <<"put", "publish", "mutate", "persist">>
    /\ DictHas(settingDict, "T1")
    /\ Len(historyDb) = 2

\* C15 (as claimed): a tick reaches every member of the symbol's set, also
\* when updateTick of some member raises, and the handler returns normally.
C15_TickFanOutIsIndependent ==
    call.op = "processTickEvent"
    => /\ \A a \in tickTargets(symbolAlgoDict, call.sym) : hookCalls[a] = 1
       /\ ~call.raised

\* C13 (as claimed): while the timer loop of the event thread is going
\* through the active set, no step adds an instance to the set or removes one
\* from it.
C13_NoChangeUnderTheTimerLoop ==
    [][(pc["event"].op = "processTimerEvent"
           /\ pc'["event"].op = "processTimerEvent")
       => algoDict' = algoDict]_vars

\* C14 (as claimed): an order or trade event for an order id the main engine
\* has returned to sendOrder is never dropped: the hook of the instance that
\* sent the order is called.
C14_OwnerIsRecordedBeforeAnyEvent ==
    (call.op \in {"processOrderEvent", "processTradeEvent"}
        /\ call.num <= ordersSent)
    => /\ call.num \in DOMAIN orderAlgoDict
       /\ hookCalls # NoHooks

\* C20 (as claimed): the stop hook of an instance is called at most once,
\* and no stopAlgo fails on a name another call has removed.
C20_StopHookAtMostOnce ==
    /\ \A a \in Algos : stopCalls[a] <= 1
    /\ call.op = "stopAlgo" => ~call.raised

====
